---- MODULE Spec2Model ----
(***************************************************************************)
(* Model of the DrawingCanvas component (components/DrawingCanvas.tsx,     *)
(* held in src/unnamed/part_000 lines 429-755) and of the part of App.tsx  *)
(* that drives it.                                                         *)
(*                                                                         *)
(* The component is a React function component.  Every handler is a        *)
(* closure over the state of the render that created it.  Handlers bound   *)
(* in JSX and in useImperativeHandle are re-created on every render, so    *)
(* they see the current state.  handleResize is created once, inside an    *)
(* effect with an empty dependency list, so it keeps the historyStack,     *)
(* currentIndex and saveSnapshot of the FIRST render for ever; only refs   *)
(* (canvasRef, contextRef, propsRef) and functional state updates reach    *)
(* the current state from there.                                           *)
(*                                                                         *)
(* Sizes are physical sizes (container size times devicePixelRatio) in an  *)
(* abstract unit in which the canvas element's default bitmap of 300 by    *)
(* 150 is DefaultWidth by DefaultHeight.  A bitmap is a function from      *)
(* pixel positions to colours.  A stroke paints the vertices of its path.  *)
(*                                                                         *)
(* App renders the canvas only while inputMode is DRAW and hands it        *)
(* isLoading as isAnalyzing.  handleAnalyze is asynchronous: the part up   *)
(* to its await and the part after it are separate steps, and pending      *)
(* counts the calls that are between the two.                              *)
(***************************************************************************)
EXTENDS Integers, Sequences, FiniteSets, TLC

\* ---------------------------------------------------------------- bounds
MaxW == 2
MaxHist == 2
\* analyzeHandwriting calls outstanding at the same time
MaxCalls == 2
\* the values Date.now() takes: 0..MaxClock
MaxClock == 2
\* user messages created in ChatInterface
MaxMsgs == 3

\* ------------------------------------------------------ program constants
\* An HTML canvas element without width/height attributes is 300 x 150.
DefaultWidth == 2
DefaultHeight == 1

\* '#1a0f05', the fill colour of handleResize and clear.
Background == "bg"
\* the color prop ('#ffffff' in App.tsx).
Ink == "ink"
\* a pixel of a freshly allocated bitmap (transparent black).
Transparent == "tr"

Colours == {Background, Ink, Transparent}
Tools == {"pen", "eraser"}
\* the brushSize prop: 4 at start, changed by the slider
BrushSizes == {4, 8}
\* lineWidth of a context that has just been created or reset
DefaultLineWidth == 1
\* physical container sizes: zero area (a collapsed or hidden container,
\* with or without a height), or one row of MaxW - 1 or MaxW pixels
Sizes ==
  {<<0, 0>>, <<0, DefaultHeight>>} \cup (((MaxW - 1)..MaxW) \X {DefaultHeight})

InputModes == {"DRAW", "UPLOAD", "CAMERA"}

\* null
Null == [null |-> TRUE]

Min(a, b) == IF a < b THEN a ELSE b

\* ---------------------------------------------------------------- bitmaps
Pos(w, h) == (1..w) \X (1..h)

Area(img) == img.w * img.h

\* a bitmap of the given size with every pixel equal to c
Bitmap(w, h, c) == [w |-> w, h |-> h, px |-> [p \in Pos(w, h) |-> c]]

\* ctx.fillRect(0, 0, width, height) under the scale(dpr, dpr) transform:
\* covers the whole bitmap.
FillRect(img, c) == Bitmap(img.w, img.h, c)

\* ctx.putImageData(data, 0, 0): copies the pixels of data that fall inside
\* the bitmap, with no scaling; pixels outside data keep their content.
PutImageData(img, data) ==
  [img EXCEPT !.px = [p \in Pos(img.w, img.h) |->
      IF p \in Pos(data.w, data.h) THEN data.px[p] ELSE img.px[p]]]

\* ctx.drawImage(src, 0, 0) under the identity transform: source-over
\* compositing of src onto the bitmap at the same pixel coordinates.
DrawImage(img, src) ==
  [img EXCEPT !.px = [p \in Pos(img.w, img.h) |->
      IF p \in Pos(src.w, src.h) /\ src.px[p] # Transparent
      THEN src.px[p] ELSE img.px[p]]]

\* The context's current path: the points it goes through, and whether it
\* has a segment yet (a path made by moveTo alone has none).
EmptyPath == [pts |-> {}, seg |-> FALSE]

\* ctx.moveTo(p) on a path just begun
MoveTo(p) == [pts |-> {p}, seg |-> FALSE]

\* ctx.lineTo(p): on an empty path it only sets the start point
LineTo(path, p) ==
  IF path.pts = {} THEN MoveTo(p)
  ELSE [pts |-> path.pts \cup {p}, seg |-> TRUE]

\* ctx.stroke(): paints the whole current path in the current stroke style.
\* A path without a segment paints nothing.
Stroke(img, path, style) ==
  IF ~path.seg THEN img
  ELSE [img EXCEPT !.px = [p \in Pos(img.w, img.h) |->
      IF p \in path.pts THEN style ELSE img.px[p]]]

\* tool === 'eraser' ? '#1a0f05' : color
StyleOf(t) == IF t = "eraser" THEN Background ELSE Ink

\* ---------------------------------------------------------------- images
\* An image as a data URL string, kept as the parts handleAnalyze looks at:
\* a long string (more than 100 characters) has a head (its first 50
\* characters), a tail (its last 50) and the rest in between; a short one
\* is kept whole.
\* canvas.toDataURL('image/png'): the string "data:," for a bitmap of zero
\* area; otherwise a PNG whose first characters hold the signature and the
\* width and height of the header chunk and whose last characters hold
\* the checksums of the pixel data (which tell apart any two bitmaps of the
\* sizes modelled here).
ToDataURL(img) ==
  IF Area(img) = 0 THEN [long |-> FALSE, text |-> "data:,"]
  ELSE [long |-> TRUE, head |-> <<"png", img.w, img.h>>, mid |-> img.px,
        tail |-> <<"sum", img.px>>]

\* a JavaScript string is falsy only when empty
Truthy(url) == url.long \/ url.text # ""

\* the frames a camera capture can produce, and the files a user can pick:
\* long data URLs; two of the files differ only between head and tail, and
\* the third is in a format the browser cannot decode
Frames ==
  {[long |-> TRUE, head |-> <<"png", "video">>, mid |-> f, tail |-> <<"sum", f>>] :
     f \in {"frame1", "frame2"}}
Uploads ==
  {[long |-> TRUE, head |-> <<"jpeg">>, mid |-> f, tail |-> <<"eoi">>] :
     f \in {"file1", "file2"}}
  \cup {[long |-> TRUE, head |-> <<"heic">>, mid |-> "file3", tail |-> <<"end">>]}

\* optimizeImageForOCR: img.src = base64Image fires load for an image the
\* browser can decode and error otherwise
Decodable(url) == url.long /\ url.head[1] \in {"png", "jpeg"}

\* the values setResult stores when a call settles: what analyzeHandwriting
\* returned, or the error result of handleAnalyze's catch
Outcomes == {[kind |-> "analysis"], [kind |-> "error"]}

\* imageData.length > 100 ? first 50 + last 50 characters : imageData
ImageHash(imageData) ==
  IF imageData.long
  THEN [head |-> imageData.head, tail |-> imageData.tail]
  ELSE imageData

\* ------------------------------------------------------------------ state
VARIABLES
  canvas,        \* the canvas element: bitmap size and pixels
  hasCtx,        \* contextRef.current # null
  strokeStyle,   \* ctx.strokeStyle
  path,          \* the context's current path
  tool,          \* the tool prop (and propsRef.current.tool)
  historyStack,  \* useState<HistoryState[]>
  currentIndex,  \* useState(-1), 0-based index into historyStack
  isDrawing,     \* useState(false)
  isAnalyzing,   \* the isAnalyzing prop = App's isLoading
  historyIds,    \* historyIds[i] is the id of the entry historyStack[i]
  brushSize,     \* the brushSize prop (and propsRef.current.brushSize)
  lineWidth,     \* ctx.lineWidth
  now,           \* the value Date.now() returns
  inputMode,     \* App: useState<InputMode>; the canvas is mounted iff DRAW
  pending,       \* App: analyzeHandwriting calls awaited by handleAnalyze
                 \* whose promise will settle
  hung,          \* App: awaited calls whose promise never settles
  result,        \* App: useState<RecognitionResult | null>
  lastAnalyzedImageRef,  \* App: useRef<string | null>
  uploadedImage  \* App: useState<string | null>

appVars == <<inputMode, pending, hung, result, lastAnalyzedImageRef,
             uploadedImage>>

VARIABLES
  messages,              \* ChatInterface: useState<ChatMessage[]>
  isLoading,             \* ChatInterface: useState(false)
  contextText,           \* ChatInterface: the prop, result?.recognizedText || ''
  lastProcessedTextRef,  \* ChatInterface: useRef<string | null>(null)
  requests,              \* chatWithBhasha promises that have not settled
  created                \* ChatMessage objects created for user messages

chatVars == <<messages, isLoading, contextText, lastProcessedTextRef, requests,
              created>>

vars == <<canvas, hasCtx, strokeStyle, path, tool, historyStack,
          currentIndex, isDrawing, isAnalyzing, historyIds, brushSize,
          lineWidth, now, appVars, chatVars>>

\* the component state as one value, handed to a handler; threw tells
\* whether the handler raised an exception
Cur ==
  [canvas |-> canvas, hasCtx |-> hasCtx, strokeStyle |-> strokeStyle,
   path |-> path, tool |-> tool, historyStack |-> historyStack,
   currentIndex |-> currentIndex, isDrawing |-> isDrawing,
   isAnalyzing |-> isAnalyzing, historyIds |-> historyIds,
   brushSize |-> brushSize, lineWidth |-> lineWidth, now |-> now,
   threw |-> FALSE]

\* the state of the first render, before the mount effect runs
FirstRender ==
  [canvas |-> Bitmap(DefaultWidth, DefaultHeight, Transparent),
   hasCtx |-> FALSE, strokeStyle |-> Background, path |-> EmptyPath,
   tool |-> "pen", historyStack |-> <<>>, currentIndex |-> -1,
   isDrawing |-> FALSE, isAnalyzing |-> FALSE, historyIds |-> <<>>,
   brushSize |-> 4, lineWidth |-> DefaultLineWidth, now |-> 0,
   threw |-> FALSE]

\* the state of App that is not handed to the canvas
App ==
  [inputMode |-> inputMode, pending |-> pending, hung |-> hung,
   result |-> result, lastAnalyzedImageRef |-> lastAnalyzedImageRef,
   uploadedImage |-> uploadedImage]

\* App before any event
FirstApp ==
  [inputMode |-> "DRAW", pending |-> 0, hung |-> 0, result |-> Null,
   lastAnalyzedImageRef |-> Null,
   uploadedImage |-> Null]

\* historyStack and currentIndex as captured by the closures of the first
\* render, the only ones handleResize ever sees.
mountHistoryStack == FirstRender.historyStack
mountCurrentIndex == FirstRender.currentIndex

\* historyStack[i] of the source (0-based); Undefined when out of range
Undefined == [undefined |-> TRUE]
At(stack, i) == IF i >= 0 /\ i < Len(stack) THEN stack[i + 1] ELSE Undefined

\* prev.slice(0, n)
Slice(stack, n) == SubSeq(stack, 1, Min(n, Len(stack)))

\* --------------------------------------------------------------- handlers
\* saveSnapshot with prev.slice(0, currentIndex) in place of
\* prev.slice(0, currentIndex + 1)
saveSnapshot_offByOne(s, k) ==
  IF ~s.hasCtx THEN s
  ELSE IF Area(s.canvas) = 0 THEN [s EXCEPT !.threw = TRUE]
  ELSE [s EXCEPT
          !.historyStack = Append(Slice(@, k), [imageData |-> s.canvas]),
          !.historyIds = Append(Slice(@, k), s.now),
          !.currentIndex = @ + 1]

\* saveSnapshot as created by a render whose currentIndex was k.
\* getImageData throws IndexSizeError on a bitmap of zero area.
saveSnapshot(s, k) ==
  IF ~s.hasCtx THEN s
  ELSE IF Area(s.canvas) = 0 THEN [s EXCEPT !.threw = TRUE]
  ELSE [s EXCEPT
          !.historyStack = Append(Slice(@, k + 1), [imageData |-> s.canvas]),
          !.historyIds = Append(Slice(@, k + 1), s.now),
          !.currentIndex = @ + 1]

\* restoreSnapshot dropping the entries after index
restoreSnapshot_truncating(s, index) ==
  IF s.hasCtx /\ At(s.historyStack, index) # Undefined
  THEN [s EXCEPT
          !.canvas = PutImageData(@, At(s.historyStack, index).imageData),
          !.historyStack = Slice(@, index + 1),
          !.historyIds = Slice(@, index + 1),
          !.currentIndex = index]
  ELSE s

\* restoreSnapshot leaving the pre-restore buffer in the entry it restores
restoreSnapshot_swapping(s, index) ==
  IF s.hasCtx /\ At(s.historyStack, index) # Undefined
  THEN [s EXCEPT
          !.canvas = PutImageData(@, At(s.historyStack, index).imageData),
          !.historyStack = [@ EXCEPT ![index + 1] = [imageData |-> s.canvas]],
          !.currentIndex = index]
  ELSE s

\* restoreSnapshot without the test of historyStack[index]
restoreSnapshot_unchecked(s, index) ==
  IF s.hasCtx
  THEN [s EXCEPT
          !.canvas = IF At(s.historyStack, index) # Undefined
                     THEN PutImageData(@, At(s.historyStack, index).imageData)
                     ELSE @,
          !.currentIndex = index]
  ELSE s

restoreSnapshot(s, index) ==
  IF s.hasCtx /\ At(s.historyStack, index) # Undefined
  THEN [s EXCEPT
          !.canvas = PutImageData(@, At(s.historyStack, index).imageData),
          !.currentIndex = index]
  ELSE s

\* handleResize without the drawImage(tempCanvas, 0, 0) that brings the
\* pre-resize pixels back
handleResize_noRestore(s, w, h) ==
  IF s.canvas.w = w /\ s.canvas.h = h THEN s
  ELSE
    LET tempCanvas == IF s.canvas.w > 0 /\ s.canvas.h > 0
                      THEN s.canvas ELSE Undefined
        s1 == [s EXCEPT !.canvas = FillRect(Bitmap(w, h, Transparent), Background),
                        !.path = EmptyPath,
                        !.lineWidth = s.brushSize,
                        !.strokeStyle = StyleOf(s.tool)]
        s2 == IF tempCanvas # Undefined
              THEN s1
              ELSE IF Len(mountHistoryStack) = 0
              THEN saveSnapshot(s1, mountCurrentIndex)
              ELSE s1
    IN [s2 EXCEPT !.hasCtx = TRUE]

\* handleResize leaving the reallocated context with its default style
handleResize_noStyle(s, w, h) ==
  IF s.canvas.w = w /\ s.canvas.h = h THEN s
  ELSE
    LET tempCanvas == IF s.canvas.w > 0 /\ s.canvas.h > 0
                      THEN s.canvas ELSE Undefined
        s1 == [s EXCEPT !.canvas = FillRect(Bitmap(w, h, Transparent), Background),
                        !.path = EmptyPath,
                        !.lineWidth = DefaultLineWidth]
        s2 == IF tempCanvas # Undefined
              THEN [s1 EXCEPT !.canvas = DrawImage(@, tempCanvas)]
              ELSE IF Len(mountHistoryStack) = 0
              THEN saveSnapshot(s1, mountCurrentIndex)
              ELSE s1
    IN [s2 EXCEPT !.hasCtx = TRUE]

\* handleResize that reallocates also when the size is unchanged
handleResize_noGuard(s, w, h) ==
  LET tempCanvas == IF s.canvas.w > 0 /\ s.canvas.h > 0
                    THEN s.canvas ELSE Undefined
      s1 == [s EXCEPT !.canvas = FillRect(Bitmap(w, h, Transparent), Background),
                      !.path = EmptyPath,
                      !.lineWidth = s.brushSize,
                      !.strokeStyle = StyleOf(s.tool)]
      s2 == IF tempCanvas # Undefined
            THEN [s1 EXCEPT !.canvas = DrawImage(@, tempCanvas)]
            ELSE IF Len(mountHistoryStack) = 0
            THEN saveSnapshot(s1, mountCurrentIndex)
            ELSE s1
  IN [s2 EXCEPT !.hasCtx = TRUE]

\* handleResize for a container whose physical size is w by h
handleResize(s, w, h) ==
  IF s.canvas.w = w /\ s.canvas.h = h THEN s
  ELSE
    LET tempCanvas == IF s.canvas.w > 0 /\ s.canvas.h > 0
                      THEN s.canvas ELSE Undefined
        \* canvas.width = ...; canvas.height = ...: a fresh bitmap and a
        \* context reset to its defaults (empty path, lineWidth 1); then the
        \* style is re-applied from propsRef and the background is filled.
        s1 == [s EXCEPT !.canvas = FillRect(Bitmap(w, h, Transparent), Background),
                        !.path = EmptyPath,
                        !.lineWidth = s.brushSize,
                        !.strokeStyle = StyleOf(s.tool)]
        s2 == IF tempCanvas # Undefined
              THEN [s1 EXCEPT !.canvas = DrawImage(@, tempCanvas)]
              ELSE IF Len(mountHistoryStack) = 0
              THEN saveSnapshot(s1, mountCurrentIndex)
              ELSE IF mountCurrentIndex >= 0
                      /\ At(mountHistoryStack, mountCurrentIndex) # Undefined
              THEN [s1 EXCEPT !.canvas = PutImageData(@,
                        At(mountHistoryStack, mountCurrentIndex).imageData)]
              ELSE s1
    IN [s2 EXCEPT !.hasCtx = TRUE]

\* clear gated by the disabled flag
clear_gated(s) ==
  IF s.hasCtx /\ ~s.isAnalyzing
  THEN saveSnapshot([s EXCEPT !.canvas = FillRect(@, Background)], s.currentIndex)
  ELSE s

\* clear taking the snapshot before the fill instead of after it
clear_saveFirst(s) ==
  IF s.hasCtx
  THEN [saveSnapshot(s, s.currentIndex) EXCEPT !.canvas = FillRect(@, Background)]
  ELSE s

clear(s) ==
  IF s.hasCtx
  THEN saveSnapshot([s EXCEPT !.canvas = FillRect(@, Background)], s.currentIndex)
  ELSE s

\* undo clamping the index at 0 instead of guarding currentIndex > 0
undo_clamped(s) ==
  restoreSnapshot(s, IF s.currentIndex > 0 THEN s.currentIndex - 1 ELSE 0)

undo(s) ==
  IF s.currentIndex > 0 THEN restoreSnapshot(s, s.currentIndex - 1) ELSE s

\* redo guarded by currentIndex < length - 2
redo_offByOne(s) ==
  IF s.currentIndex < Len(s.historyStack) - 2
  THEN restoreSnapshot(s, s.currentIndex + 1) ELSE s

redo(s) ==
  IF s.currentIndex < Len(s.historyStack) - 1
  THEN restoreSnapshot(s, s.currentIndex + 1) ELSE s

startDrawing(s, p) ==
  IF s.isAnalyzing THEN s
  ELSE [s EXCEPT !.path = IF s.hasCtx THEN MoveTo(p) ELSE @,
                 !.isDrawing = TRUE]

\* closePath() leaves a path that is never stroked again: draw needs
\* isDrawing, and the startDrawing that sets it calls beginPath first.  The
\* closed path is therefore modelled as discarded.
finishDrawing(s) ==
  IF s.isDrawing
  THEN saveSnapshot([s EXCEPT !.isDrawing = FALSE,
                              !.path = IF s.hasCtx THEN EmptyPath ELSE @],
                    s.currentIndex)
  ELSE s

\* draw without the isAnalyzing guard
draw_ungated(s, p) ==
  IF ~s.isDrawing THEN s
  ELSE IF ~s.hasCtx THEN s
  ELSE LET newPath == LineTo(s.path, p)
       IN [s EXCEPT !.path = newPath,
                    !.canvas = Stroke(@, newPath, s.strokeStyle)]

draw(s, p) ==
  IF ~s.isDrawing \/ s.isAnalyzing THEN s
  ELSE IF ~s.hasCtx THEN s
  ELSE LET newPath == LineTo(s.path, p)
       IN [s EXCEPT !.path = newPath,
                    !.canvas = Stroke(@, newPath, s.strokeStyle)]

\* the effect on [tool, brushSize, color]
setTool(s, t) ==
  [s EXCEPT !.tool = t,
            !.strokeStyle = IF s.hasCtx THEN StyleOf(t) ELSE @]

\* the same effect after a change of the brushSize prop
setBrushSize(s, b) ==
  [s EXCEPT !.brushSize = b,
            !.lineWidth = IF s.hasCtx THEN b ELSE @]

\* getDataUrl taking a snapshot of what it exports
getDataUrl_capturing(s) ==
  [cv |-> saveSnapshot(s, s.currentIndex),
   result |-> IF Truthy(ToDataURL(s.canvas)) THEN ToDataURL(s.canvas) ELSE Null]

\* getDataUrl: canvasRef.current?.toDataURL('image/png') || null.  The
\* canvas element exists for as long as the component is mounted, with or
\* without a drawing context.
getDataUrl(s) ==
  [cv |-> s,
   result |-> IF Truthy(ToDataURL(s.canvas)) THEN ToDataURL(s.canvas) ELSE Null]

\* ----------------------------------------------------------- App handlers
\* An App handler takes App's state a and the canvas state s and gives both
\* back.  handleAnalyze is modelled up to its await; AnalyzeSettle is the
\* rest of it.  analyzeHandwriting first awaits optimizeImageForOCR, whose
\* promise is resolved by the image's load event only: for an image that
\* does not load, the awaited promise never settles.
handleAnalyze(a, s, imageData) ==
  IF imageData = Null THEN [app |-> a, cv |-> s]
  ELSE IF a.lastAnalyzedImageRef = ImageHash(imageData) THEN [app |-> a, cv |-> s]
  ELSE [app |-> [a EXCEPT !.lastAnalyzedImageRef = ImageHash(imageData),
                          !.result = Null,
                          !.pending = IF Decodable(imageData) THEN @ + 1 ELSE @,
                          !.hung = IF Decodable(imageData) THEN @ ELSE @ + 1],
        cv |-> [s EXCEPT !.isAnalyzing = TRUE]]

\* the code after the await: setResult(data) or the catch's setResult, and
\* the finally block's setIsLoading(false)
analyzeSettled(a, s, outcome) ==
  [app |-> [a EXCEPT !.pending = @ - 1, !.result = outcome],
   cv |-> [s EXCEPT !.isAnalyzing = FALSE]]

onCanvasSubmit(a, s) ==
  LET r == getDataUrl(s) IN handleAnalyze(a, r.cv, r.result)

\* the link made from the data URL is not part of the state
onDownloadCanvas(a, s) ==
  LET r == getDataUrl(s) IN [app |-> a, cv |-> r.cv]

handleUploadSubmit(a, s) ==
  IF a.uploadedImage # Null THEN handleAnalyze(a, s, a.uploadedImage)
  ELSE [app |-> a, cv |-> s]

handleCameraCapture(a, s, imageData) == handleAnalyze(a, s, imageData)

\* the canvas component as React creates it on a mount: its own state is
\* that of a first render, its props come from App
Remounted(s) ==
  [FirstRender EXCEPT !.tool = s.tool, !.isAnalyzing = s.isAnalyzing,
                      !.brushSize = s.brushSize, !.now = s.now]

\* a click on a tab: setInputMode(tab); setUploadedImage(null).  Leaving
\* DRAW unmounts the canvas component (its state is gone) and entering DRAW
\* mounts a new one in a container of physical size w by h.
setInputMode(a, s, tab, w, h) ==
  [app |-> [a EXCEPT !.inputMode = tab, !.uploadedImage = Null],
   cv |-> IF tab = a.inputMode THEN s
          ELSE IF tab = "DRAW" THEN handleResize(Remounted(s), w, h)
          ELSE IF a.inputMode = "DRAW" THEN Remounted(s)
          ELSE s]

\* ---------------------------------------------------------------- actions
\* ---- ChatInterface ----
\* The component is always mounted by App; its contextText prop is the text
\* of App's result ('' while result is null).  A user message is an object:
\* msg is the number of user messages created before it.  A request
\* remembers the user message it was sent for, and the reply that settles it
\* carries that number in re.  The ref holds Null or [text |-> a string].
Texts == {"", "text1", "text2"}

Replies == {"reply", "fallback", "error"}

Chat ==
  [messages |-> messages, isLoading |-> isLoading, contextText |-> contextText,
   lastProcessedTextRef |-> lastProcessedTextRef, requests |-> requests,
   created |-> created]

\* the first render with result null
FirstChat ==
  [messages |-> <<>>, isLoading |-> FALSE, contextText |-> "",
   lastProcessedTextRef |-> Null, requests |-> {}, created |-> 0]

\* the effect on [contextText], run after a render with a new prop value
contextTextEffect(c, text) ==
  LET c1 == [c EXCEPT !.contextText = text]
  IN IF text # "" /\ [text |-> text] # c.lastProcessedTextRef
     THEN [c1 EXCEPT !.lastProcessedTextRef = [text |-> text],
                     !.messages = <<[role |-> "user", msg |-> c.created]>>,
                     !.isLoading = TRUE,
                     !.requests = @ \cup {[re |-> c.created]},
                     !.created = @ + 1]
     ELSE c1

\* handleSend with a non-empty text, up to its await
handleSend(c) ==
  IF c.isLoading THEN c
  ELSE [c EXCEPT !.messages = Append(@, [role |-> "user", msg |-> c.created]),
                 !.isLoading = TRUE,
                 !.requests = @ \cup {[re |-> c.created]},
                 !.created = @ + 1]

\* the code after a chatWithBhasha promise settles, in handleSend and in the
\* effect alike: setMessages(prev => [...prev, reply]), setIsLoading(false)
chatSettled(c, r, reply) ==
  [c EXCEPT !.messages = Append(@, [role |-> "model", kind |-> reply, re |-> r.re]),
            !.isLoading = FALSE,
            !.requests = @ \ {r}]

InBounds(s) ==
  /\ Len(s.historyStack) <= MaxHist
  /\ s.currentIndex < MaxHist

\* the state a handler of the canvas leaves becomes the state of the next
\* render; the handlers exist while the component is mounted
Commit(s) ==
  /\ inputMode = "DRAW"
  /\ InBounds(s)
  /\ UNCHANGED appVars
  /\ UNCHANGED chatVars
  /\ canvas' = s.canvas
  /\ hasCtx' = s.hasCtx
  /\ strokeStyle' = s.strokeStyle
  /\ path' = s.path
  /\ tool' = s.tool
  /\ historyStack' = s.historyStack
  /\ currentIndex' = s.currentIndex
  /\ isDrawing' = s.isDrawing
  /\ isAnalyzing' = s.isAnalyzing
  /\ historyIds' = s.historyIds
  /\ brushSize' = s.brushSize
  /\ lineWidth' = s.lineWidth
  /\ now' = s.now

\* pointer events carry a position on the canvas element
Points == Pos(canvas.w, canvas.h)

Init ==
  \E sz \in Sizes :
    LET s == handleResize(FirstRender, sz[1], sz[2]) IN
      /\ canvas = s.canvas
      /\ hasCtx = s.hasCtx
      /\ strokeStyle = s.strokeStyle
      /\ path = s.path
      /\ tool = s.tool
      /\ historyStack = s.historyStack
      /\ currentIndex = s.currentIndex
      /\ isDrawing = s.isDrawing
      /\ isAnalyzing = s.isAnalyzing
      /\ historyIds = s.historyIds
      /\ brushSize = s.brushSize
      /\ lineWidth = s.lineWidth
      /\ now = s.now
      /\ inputMode = FirstApp.inputMode
      /\ pending = FirstApp.pending
      /\ hung = FirstApp.hung
      /\ result = FirstApp.result
      /\ lastAnalyzedImageRef = FirstApp.lastAnalyzedImageRef
      /\ uploadedImage = FirstApp.uploadedImage
      /\ messages = FirstChat.messages
      /\ isLoading = FirstChat.isLoading
      /\ contextText = FirstChat.contextText
      /\ lastProcessedTextRef = FirstChat.lastProcessedTextRef
      /\ requests = FirstChat.requests
      /\ created = FirstChat.created

\* the ResizeObserver reports a container of physical size sz
Resize == \E s \in {handleResize(Cur, sz[1], sz[2]) : sz \in Sizes} : Commit(s)

Clear == \E s \in {clear(Cur)} : Commit(s)

Undo == \E s \in {undo(Cur)} : Commit(s)

Redo == \E s \in {redo(Cur)} : Commit(s)

\* a click on entry idx of the history panel
JumpTo == \E idx \in 0..(Len(historyStack) - 1) : Commit(restoreSnapshot(Cur, idx))

StartDrawing == \E p \in Points : Commit(startDrawing(Cur, p))

Draw == \E p \in Points : Commit(draw(Cur, p))

FinishDrawing == \E s \in {finishDrawing(Cur)} : Commit(s)

SetTool == \E t \in Tools \ {tool} : Commit(setTool(Cur, t))

\* the brush-size slider of the toolbar
SetBrushSize == \E b \in BrushSizes \ {brushSize} : Commit(setBrushSize(Cur, b))

\* the clock advances
Tick == now < MaxClock /\ Commit([Cur EXCEPT !.now = @ + 1])

\* App.handleAnalyze: setIsLoading(true) ... finally setIsLoading(false)
AnalyzeStart == ~isAnalyzing /\ Commit([Cur EXCEPT !.isAnalyzing = TRUE])

AnalyzeEnd == isAnalyzing /\ Commit([Cur EXCEPT !.isAnalyzing = FALSE])

\* the canvas on its own: pointer, toolbar, history-panel and resize events
Next ==
  \/ Resize
  \/ Clear
  \/ Undo
  \/ Redo
  \/ JumpTo
  \/ StartDrawing
  \/ Draw
  \/ FinishDrawing

Spec == Init /\ [][Next]_vars

\* the canvas while App starts and completes analyses
NextBusy ==
  \/ Next
  \/ AnalyzeStart
  \/ AnalyzeEnd

SpecBusy == Init /\ [][NextBusy]_vars

\* the canvas while the toolbar switches between pen and eraser
NextTool ==
  \/ Next
  \/ SetTool

SpecTool == Init /\ [][NextTool]_vars

\* the canvas under stroke input, toolbar changes and resizes
NextStyle ==
  \/ Resize
  \/ StartDrawing
  \/ Draw
  \/ FinishDrawing
  \/ SetTool
  \/ SetBrushSize

SpecStyle == Init /\ [][NextStyle]_vars

\* the canvas while the clock advances between events, or does not
NextClock ==
  \/ Next
  \/ Tick

SpecClock == Init /\ [][NextClock]_vars

\* the state a handler of App leaves
CommitApp(r) ==
  /\ InBounds(r.cv)
  /\ UNCHANGED chatVars
  /\ r.app.pending + r.app.hung <= MaxCalls
  /\ canvas' = r.cv.canvas
  /\ hasCtx' = r.cv.hasCtx
  /\ strokeStyle' = r.cv.strokeStyle
  /\ path' = r.cv.path
  /\ tool' = r.cv.tool
  /\ historyStack' = r.cv.historyStack
  /\ currentIndex' = r.cv.currentIndex
  /\ isDrawing' = r.cv.isDrawing
  /\ isAnalyzing' = r.cv.isAnalyzing
  /\ historyIds' = r.cv.historyIds
  /\ brushSize' = r.cv.brushSize
  /\ lineWidth' = r.cv.lineWidth
  /\ now' = r.cv.now
  /\ inputMode' = r.app.inputMode
  /\ pending' = r.app.pending
  /\ hung' = r.app.hung
  /\ result' = r.app.result
  /\ lastAnalyzedImageRef' = r.app.lastAnalyzedImageRef
  /\ uploadedImage' = r.app.uploadedImage

\* a click on another tab
SwitchMode ==
  \E tab \in InputModes \ {inputMode} : \E sz \in Sizes :
    CommitApp(setInputMode(App, Cur, tab, sz[1], sz[2]))

\* handleFileUpload: the FileReader has read the chosen file
FileUpload ==
  /\ inputMode = "UPLOAD"
  /\ \E f \in Uploads : CommitApp([app |-> [App EXCEPT !.uploadedImage = f], cv |-> Cur])

\* the bin and "Clear Image" buttons of the preview
RemoveUpload ==
  /\ inputMode = "UPLOAD"
  /\ uploadedImage # Null
  /\ CommitApp([app |-> [App EXCEPT !.uploadedImage = Null], cv |-> Cur])

\* the submit button under the canvas: if (!isLoading) onCanvasSubmit()
CanvasSubmit ==
  /\ inputMode = "DRAW"
  /\ ~isAnalyzing
  /\ \E r \in {onCanvasSubmit(App, Cur)} : CommitApp(r)

\* the submit button under the preview: if (!isLoading) handleUploadSubmit()
UploadSubmit ==
  /\ inputMode = "UPLOAD"
  /\ ~isAnalyzing
  /\ \E r \in {handleUploadSubmit(App, Cur)} : CommitApp(r)

\* CameraCapture calls onCapture with the frame it has drawn
CameraShot ==
  /\ inputMode = "CAMERA"
  /\ \E f \in Frames : CommitApp(handleCameraCapture(App, Cur, f))

\* an analyzeHandwriting call resolves or rejects
AnalyzeSettle ==
  /\ pending > 0
  /\ \E r \in {analyzeSettled(App, Cur, o) : o \in Outcomes} : CommitApp(r)

\* App and the canvas under stroke input
NextApp ==
  \/ SwitchMode
  \/ FileUpload
  \/ RemoveUpload
  \/ CanvasSubmit
  \/ UploadSubmit
  \/ CameraShot
  \/ AnalyzeSettle
  \/ StartDrawing
  \/ Draw
  \/ FinishDrawing

SpecApp == Init /\ [][NextApp]_vars

\* a promise that can settle does: the remote call resolves or rejects
SpecAppFair == SpecApp /\ WF_vars(AnalyzeSettle)

\* ---- ChatInterface under changes of its prop ----
CommitChat(c) ==
  /\ c.created <= MaxMsgs
  /\ messages' = c.messages
  /\ isLoading' = c.isLoading
  /\ contextText' = c.contextText
  /\ lastProcessedTextRef' = c.lastProcessedTextRef
  /\ requests' = c.requests
  /\ created' = c.created
  /\ UNCHANGED <<canvas, hasCtx, strokeStyle, path, tool, historyStack,
                 currentIndex, isDrawing, isAnalyzing, historyIds, brushSize,
                 lineWidth, now, appVars>>

\* App renders with another result text
ContextChange ==
  \E c \in {contextTextEffect(Chat, t) : t \in Texts \ {contextText}} :
    CommitChat(c)

\* the send button, Enter, or a suggestion chip
HandleSend == \E c \in {handleSend(Chat)} : CommitChat(c)

ChatSettle ==
  \E c \in {chatSettled(Chat, r, k) : r \in requests, k \in Replies} :
    CommitChat(c)

NextChat == ContextChange \/ HandleSend \/ ChatSettle

SpecChat == Init /\ [][NextChat]_vars

\* ----------------------------------------------------------------- claims
\* vocabulary of the claims
Blank(img) == FillRect(img, Background)

Snapshot(img) == [imageData |-> img]

HasInk(img) == \E p \in Pos(img.w, img.h) : img.px[p] = Ink

\* the buffer holds exactly the snapshot at currentIndex: nothing drawn since
\* the last capture or restore, and no resize since
Committed(s) ==
  /\ At(s.historyStack, s.currentIndex) # Undefined
  /\ s.canvas = At(s.historyStack, s.currentIndex).imageData

\* t differs from s neither in the pixel buffer, nor in currentIndex, nor in
\* the History
SameDrawing(s, t) ==
  /\ t.canvas = s.canvas
  /\ t.currentIndex = s.currentIndex
  /\ t.historyStack = s.historyStack

\* t is s after one capture: entries 0..k of s kept, the buffer of t
\* appended at k+1 and made current, where k is the currentIndex of s
Captured(s, t) ==
  /\ Len(t.historyStack) = s.currentIndex + 2
  /\ t.currentIndex = s.currentIndex + 1
  /\ SubSeq(t.historyStack, 1, s.currentIndex + 1)
       = SubSeq(s.historyStack, 1, s.currentIndex + 1)
  /\ t.historyStack[s.currentIndex + 2] = Snapshot(t.canvas)

\* one stroke from p to q: pointer down, one move, pointer up
CompleteStroke(s, p, q) == finishDrawing(draw(startDrawing(s, p), q))

\* the component has just been mounted
JustMounted == \E sz \in Sizes : Cur = handleResize(FirstRender, sz[1], sz[2])

\* C1: once the History holds a snapshot, 0 <= currentIndex < length of
\* the History in every reachable state.
C1_IndexInRange ==
  Len(historyStack) > 0 =>
    (0 <= currentIndex /\ currentIndex < Len(historyStack))

\* C2: a capture run by clear() or at the end of a stroke on a History of
\* length N with currentIndex = k <= N-1 leaves entries 0..k as they were,
\* puts the new snapshot of the buffer at index k+1, and makes the length
\* k+2 and currentIndex k+1 (every entry that was after k is gone; for
\* k = N-1 the History grows by one).
C2_AppendTruncate ==
  (hasCtx /\ Area(canvas) > 0 /\ currentIndex <= Len(historyStack) - 1) =>
    /\ Captured(Cur, clear(Cur))
    /\ isDrawing => Captured(Cur, finishDrawing(Cur))

\* a stroke is about to end while the current entry is followed by an entry
\* that differs from the buffer
C2_Witness ==
  /\ hasCtx /\ Area(canvas) > 0 /\ isDrawing
  /\ Len(historyStack) = 2
  /\ currentIndex = 0
  /\ historyStack[2] # Snapshot(canvas)
  /\ InBounds(finishDrawing(Cur))
  /\ finishDrawing(Cur).historyStack = <<historyStack[1], Snapshot(canvas)>>

\* C3 as stated: from any reachable state, undo() followed by redo() leaves
\* the pixel buffer and currentIndex as they were before the pair.  Stated
\* for the states whose currentIndex lies inside the History, so that a
\* violation does not rest on a currentIndex that C1 rules out.
C3_UndoRedoAnyState ==
  currentIndex < Len(historyStack) =>
    /\ redo(undo(Cur)).canvas = canvas
    /\ redo(undo(Cur)).currentIndex = currentIndex

\* C3 amended: from a reachable state with currentIndex > 0 whose buffer
\* holds exactly the snapshot at currentIndex, undo() followed by redo()
\* leaves the pixel buffer and currentIndex as they were before the pair.
C3_UndoRedoCommitted ==
  (currentIndex > 0 /\ Committed(Cur)) =>
    /\ redo(undo(Cur)).canvas = canvas
    /\ redo(undo(Cur)).currentIndex = currentIndex

\* a committed buffer that undo() takes one snapshot back, to other pixels
C3_Witness ==
  /\ currentIndex > 0
  /\ Committed(Cur)
  /\ undo(Cur).currentIndex = currentIndex - 1
  /\ undo(Cur).canvas # canvas

\* C4: undo() at currentIndex = 0 and redo() at currentIndex = length-1
\* change neither the pixel buffer, nor currentIndex, nor the History.
C4_BoundaryNoOp ==
  /\ currentIndex = 0 => SameDrawing(Cur, undo(Cur))
  /\ currentIndex = Len(historyStack) - 1 => SameDrawing(Cur, redo(Cur))

\* index 0 of a History of two entries, with a buffer that differs from
\* snapshot 0
C4_Witness ==
  /\ currentIndex = 0
  /\ hasCtx
  /\ Len(historyStack) = 2
  /\ canvas.w = historyStack[1].imageData.w
  /\ canvas # historyStack[1].imageData

C6_HistoryCreatedOnInit ==
  (hasCtx /\ Area(canvas) > 0) =>
    /\ Len(historyStack) >= 1
    /\ JustMounted =>
         (historyStack = <<Snapshot(Blank(canvas))>> /\ currentIndex = 0)

\* C7: on a surface just initialised with a non-zero size, one completed
\* stroke from p to q makes the History (blank, stroke); undo() then makes
\* the stroke's pixels the background colour and redo() the stroke colour.
C7_OneStrokeScenario ==
  (JustMounted /\ Area(canvas) > 0) =>
    \A p, q \in Points :
      LET s1 == CompleteStroke(Cur, p, q)
          s2 == undo(s1)
          s3 == redo(s2)
      IN /\ Len(s1.historyStack) = 2
         /\ s1.currentIndex = 1
         /\ s1.canvas.px[p] = Ink /\ s1.canvas.px[q] = Ink
         /\ s2.canvas.px[p] = Background /\ s2.canvas.px[q] = Background
         /\ s3.canvas.px[p] = Ink /\ s3.canvas.px[q] = Ink

\* C8: on a surface just initialised, stroke A, stroke B, undo(), stroke C
\* leave the History exactly (blank, A, C) with currentIndex = 2, and no
\* undo, redo or jump from there restores stroke B's snapshot.
C8_BranchScenario ==
  (JustMounted /\ Area(canvas) > 0) =>
    \A a, b, c \in Points :
      LET sA == CompleteStroke(Cur, a, a)
          sB == CompleteStroke(sA, b, b)
          sU == undo(sB)
          sC == CompleteStroke(sU, c, c)
      IN /\ sC.historyStack = <<Snapshot(Blank(canvas)), Snapshot(sA.canvas),
                                Snapshot(sC.canvas)>>
         /\ sC.currentIndex = 2
         /\ sU.canvas = sA.canvas
         /\ \A i \in 0..2 :
              (sB.canvas # sA.canvas /\ sB.canvas # sC.canvas) =>
                restoreSnapshot(sC, i).canvas # sB.canvas

\* C9: clear() on a buffer that holds exactly the non-blank snapshot at
\* currentIndex = k keeps entries 0..k, appends a blank snapshot at k+1 and
\* makes it current; the undo() that follows restores the buffer that
\* preceded the clear and the redo() after it makes the buffer blank again.
C9_ClearRestorable ==
  (hasCtx /\ Committed(Cur) /\ canvas # Blank(canvas)) =>
    LET c == clear(Cur)
        u == undo(c)
        r == redo(u)
    IN /\ c.canvas = Blank(canvas)
       /\ c.historyStack = Append(Slice(historyStack, currentIndex + 1),
                                  Snapshot(Blank(canvas)))
       /\ c.currentIndex = currentIndex + 1
       /\ u.canvas = canvas
       /\ u.currentIndex = currentIndex
       /\ u.historyStack = c.historyStack
       /\ r.canvas = Blank(canvas)
       /\ r.currentIndex = currentIndex + 1
       /\ r.historyStack = c.historyStack

\* committed ink on which clear() can run
C9_Witness ==
  /\ hasCtx
  /\ Committed(Cur)
  /\ HasInk(canvas)
  /\ InBounds(clear(Cur))
  /\ Len(clear(Cur).historyStack) = 2

\* C10: a resize that reallocates a buffer of non-zero area keeps every
\* drawn pixel at the same coordinates within the area common to the old
\* and the new buffer, whether or not a snapshot holds it, and leaves the
\* History and currentIndex unchanged.
C10_ResizeKeepsLivePixels ==
  Area(canvas) > 0 =>
    \A sz \in Sizes \ {<<canvas.w, canvas.h>>} :
      LET t == handleResize(Cur, sz[1], sz[2])
      IN /\ t.canvas.w = sz[1] /\ t.canvas.h = sz[2]
         /\ \A p \in Pos(canvas.w, canvas.h) \cap Pos(sz[1], sz[2]) :
              canvas.px[p] # Transparent => t.canvas.px[p] = canvas.px[p]
         /\ t.historyStack = historyStack
         /\ t.currentIndex = currentIndex

\* an active stroke has painted a pixel that the current snapshot holds as
\* background, on a buffer that can both grow and shrink
C10_Witness ==
  /\ isDrawing
  /\ hasCtx
  /\ Area(canvas) > 0
  /\ At(historyStack, currentIndex) # Undefined
  /\ At(historyStack, currentIndex).imageData.px[<<1, 1>>] = Background
  /\ canvas.px[<<1, 1>>] = Ink
  /\ \A i \in 1..Len(historyStack) : historyStack[i] # Snapshot(canvas)
  /\ \E sz \in Sizes : sz[1] > 0 /\ sz[2] > 0 /\ sz # <<canvas.w, canvas.h>>

\* the indexes a caller can hand to restoreSnapshot: those of the History
\* and some on either side of it
Indexes == (-2)..(MaxHist + 1)

\* C11: a jump to index i with 0 <= i < length sets currentIndex = i, writes
\* snapshot i into the buffer (every pixel the buffer and the snapshot have
\* in common takes the snapshot's content, on a buffer of unchanged size),
\* and leaves the History unchanged, also when i < length-1.
C11_JumpKeepsHistory ==
  \A i \in 0..(Len(historyStack) - 1) :
    LET t == restoreSnapshot(Cur, i)
        snap == historyStack[i + 1].imageData
    IN /\ t.currentIndex = i
       /\ t.historyStack = historyStack
       /\ t.canvas.w = canvas.w /\ t.canvas.h = canvas.h
       /\ \A p \in Pos(canvas.w, canvas.h) \cap Pos(snap.w, snap.h) :
            t.canvas.px[p] = snap.px[p]
       /\ (snap.w = canvas.w /\ snap.h = canvas.h) => t.canvas = snap

\* the last of two entries is current and the buffer differs from the
\* first entry, which has the buffer's size
C11_Witness ==
  /\ Len(historyStack) = 2
  /\ currentIndex = 1
  /\ historyStack[1].imageData.w = canvas.w
  /\ historyStack[1].imageData.h = canvas.h
  /\ historyStack[1].imageData # canvas
  /\ restoreSnapshot(Cur, 0).canvas # canvas

\* C12: restoreSnapshot with an index outside 0..length-1, and with any
\* index when the History is empty, changes neither the pixel buffer, nor
\* currentIndex, nor the History, and raises no error.
C12_InvalidIndexNoOp ==
  \A i \in Indexes \ (0..(Len(historyStack) - 1)) :
    /\ SameDrawing(Cur, restoreSnapshot(Cur, i))
    /\ ~restoreSnapshot(Cur, i).threw
    /\ restoreSnapshot(Cur, i) = Cur

\* a drawing context with a History of one entry that differs from the
\* buffer: the index one past the end is not currentIndex
C12_Witness ==
  /\ hasCtx
  /\ Len(historyStack) = 1
  /\ currentIndex = 0
  /\ historyStack[1].imageData # canvas
  /\ At(historyStack, 1) = Undefined

\* the drawing state of the canvas: pixel buffer, History, currentIndex and
\* the state of the stroke and of the context
DrawingState(s) ==
  <<s.canvas, s.historyStack, s.currentIndex, s.isDrawing, s.path, s.hasCtx,
    s.strokeStyle>>

\* C13: getDataUrl changes neither the History, nor currentIndex, nor the
\* pixel buffer, nor the stroke state, in any reachable state, and raises no
\* error; onCanvasSubmit (whether or not it starts an analysis) and
\* onDownloadCanvas leave the drawing state unchanged.
C13_ExportKeepsDrawing ==
  /\ getDataUrl(Cur).cv = Cur
  /\ \A last \in {Null, ImageHash(ToDataURL(canvas))} :
       LET a == [App EXCEPT !.lastAnalyzedImageRef = last]
       IN /\ DrawingState(onCanvasSubmit(a, Cur).cv) = DrawingState(Cur)
          /\ ~onCanvasSubmit(a, Cur).cv.threw
          /\ onDownloadCanvas(a, Cur) = [app |-> a, cv |-> Cur]

\* a stroke in progress has painted ink that no snapshot holds, and a
\* submit of this buffer starts an analysis
C13_Witness ==
  /\ hasCtx /\ Area(canvas) > 0
  /\ isDrawing /\ path.seg
  /\ HasInk(canvas)
  /\ Len(historyStack) = 1
  /\ historyStack[1] # Snapshot(canvas)
  /\ onCanvasSubmit(App, Cur).cv.isAnalyzing
  /\ onCanvasSubmit(App, Cur).app.pending = 1

\* C14: getDataUrl called while no pixel buffer has been initialised (no
\* drawing context was ever created, or the buffer has zero area) returns
\* null and raises no error; it returns an image only when a drawing
\* context exists on a buffer of non-zero area.
C14_NullWithoutBuffer ==
  /\ ~getDataUrl(Cur).cv.threw
  /\ (~hasCtx \/ Area(canvas) = 0) => getDataUrl(Cur).result = Null
  /\ getDataUrl(Cur).result # Null => (hasCtx /\ Area(canvas) > 0)

\* C15: whenever at least one analysis call started by handleAnalyze is
\* outstanding and the canvas is on screen, isAnalyzing is true and neither
\* startDrawing nor draw changes anything, for every interleaving of canvas
\* submit, upload submit, camera capture, tab switches and call completions.
C15_DisabledWhileOutstanding ==
  (pending > 0 /\ inputMode = "DRAW") =>
    /\ isAnalyzing
    /\ \A p \in Points : startDrawing(Cur, p) = Cur /\ draw(Cur, p) = Cur

\* the first n entries of the current History are the first n entries of
\* the History of t
KeepsEntries(t, n) ==
  /\ Len(t.historyStack) >= n
  /\ SubSeq(t.historyStack, 1, n) = SubSeq(historyStack, 1, n)

\* C16: no resize, undo, redo, jump, export or pointer-down or pointer-move
\* removes or replaces an entry of the History; a capture (clear or the end
\* of a stroke) at the tail keeps every entry and a capture performed while
\* currentIndex < length-1 keeps the entries 0..currentIndex.
C16_EntriesOnlyTruncated ==
  LET n == Len(historyStack)
      k == Min(currentIndex + 1, n)
  IN /\ \A sz \in Sizes : KeepsEntries(handleResize(Cur, sz[1], sz[2]), n)
     /\ KeepsEntries(undo(Cur), n)
     /\ KeepsEntries(redo(Cur), n)
     /\ \A i \in Indexes : KeepsEntries(restoreSnapshot(Cur, i), n)
     /\ KeepsEntries(getDataUrl(Cur).cv, n)
     /\ \A p \in Points :
          KeepsEntries(startDrawing(Cur, p), n) /\ KeepsEntries(draw(Cur, p), n)
     /\ KeepsEntries(clear(Cur), k)
     /\ KeepsEntries(finishDrawing(Cur), k)

\* t is s after the end of a stroke that captured exactly one snapshot: the
\* entries up to the currentIndex of s, then the buffer of t
OneCapture(s, t) ==
  /\ ~t.isDrawing
  /\ ~t.threw
  /\ t.historyStack
       = Append(Slice(s.historyStack, s.currentIndex + 1), Snapshot(t.canvas))

\* C17: a completed stroke (an accepted startDrawing, zero, one or two draw
\* calls, then finishDrawing) adds exactly one snapshot to the History, and
\* so does the finishDrawing that ends a stroke in progress; finishDrawing
\* with no active stroke changes nothing.
C17_OneSnapshotPerStroke ==
  /\ ~isDrawing => finishDrawing(Cur) = Cur
  /\ isDrawing => OneCapture(Cur, finishDrawing(Cur))
  /\ ~isAnalyzing =>
       \A p, q, r \in Points :
         /\ OneCapture(Cur, finishDrawing(startDrawing(Cur, p)))
         /\ OneCapture(Cur, CompleteStroke(Cur, p, q))
         /\ OneCapture(Cur, finishDrawing(draw(draw(startDrawing(Cur, p), q), r)))

\* C18: a resize from a buffer of zero area to a non-zero size while the
\* History is not empty repaints the buffer from the snapshot at
\* currentIndex and leaves the History and currentIndex unchanged; a resize
\* changes the History only when the History is empty.
C18_ResizeRestoresFromHistory ==
  \A sz \in Sizes :
    LET t == handleResize(Cur, sz[1], sz[2])
        snap == At(historyStack, currentIndex)
    IN /\ t.historyStack # historyStack => Len(historyStack) = 0
       /\ (Area(canvas) = 0 /\ sz[1] * sz[2] > 0 /\ snap # Undefined) =>
            /\ t.currentIndex = currentIndex
            /\ \A p \in Pos(sz[1], sz[2]) \cap Pos(snap.imageData.w, snap.imageData.h) :
                 t.canvas.px[p] = snap.imageData.px[p]

\* snapshot data scaled to w by h (nearest pixel), and the same data
\* cropped to w by h on a background
Stretched(data, w, h) ==
  [w |-> w, h |-> h,
   px |-> [p \in Pos(w, h) |->
             data.px[<<((p[1] - 1) * data.w) \div w + 1,
                       ((p[2] - 1) * data.h) \div h + 1>>]]]

Cropped(data, w, h) ==
  [w |-> w, h |-> h,
   px |-> [p \in Pos(w, h) |->
             IF p \in Pos(data.w, data.h) THEN data.px[p] ELSE Background]]

\* the buffer of t shows the snapshot at the currentIndex of t and nothing
\* else
ShowsCurrentSnapshot(t) ==
  LET data == At(t.historyStack, t.currentIndex).imageData
  IN \/ t.canvas = Stretched(data, t.canvas.w, t.canvas.h)
     \/ t.canvas = Cropped(data, t.canvas.w, t.canvas.h)

\* C19: after an undo(), a redo() or a jump that sets currentIndex to i the
\* whole pixel buffer is the content of snapshot i, stretched or cropped to
\* the buffer's size when the sizes differ; no pixel keeps what it held
\* before the restore.
C19_RestoreReplacesBuffer ==
  /\ (currentIndex > 0 /\ currentIndex <= Len(historyStack)) =>
       ShowsCurrentSnapshot(undo(Cur))
  /\ (currentIndex >= -1 /\ currentIndex < Len(historyStack) - 1) =>
       ShowsCurrentSnapshot(redo(Cur))
  /\ \A i \in 0..(Len(historyStack) - 1) :
       ShowsCurrentSnapshot(restoreSnapshot(Cur, i))

\* the sizes of Sizes with zero width or zero height
ZeroSizes == {sz \in Sizes : sz[1] * sz[2] = 0}

\* C20: a resize to zero width or zero height raises no error and leaves
\* the pixel buffer, the drawing context and the History unchanged, so that
\* the drawn content and the History are intact when the container is back
\* at its former non-zero size.
C20_ZeroResizeNoOp ==
  Area(canvas) > 0 =>
    \A sz \in ZeroSizes :
      LET z == handleResize(Cur, sz[1], sz[2])
          b == handleResize(z, canvas.w, canvas.h)
      IN /\ ~z.threw
         /\ z.canvas = canvas
         /\ z.hasCtx = hasCtx
         /\ z.historyStack = historyStack
         /\ ~b.threw
         /\ b.canvas = canvas
         /\ b.historyStack = historyStack
         /\ b.currentIndex = currentIndex

\* C21: the ids of the snapshots are strictly increasing along the History
\* (and so unique), whenever the captures happen.
C21_IdsStrictlyIncreasing ==
  \A i, j \in 1..Len(historyIds) : i < j => historyIds[i] < historyIds[j]

\* every entry of the History of t is the entry the current History holds at
\* the same index, or is the last entry of t and holds the buffer of t
EntriesAsCaptured(t) ==
  \A i \in 1..Len(t.historyStack) :
    \/ i <= Len(historyStack) /\ t.historyStack[i] = historyStack[i]
    \/ i = Len(t.historyStack) /\ t.historyStack[i] = Snapshot(t.canvas)

\* C22: the pixel data of a snapshot never changes after its capture: after
\* any stroke event, clear, restore, export or resize, every entry of the
\* History is an entry that was there before, unchanged and at the same
\* index, or the one entry just captured from the buffer.
C22_SnapshotsImmutable ==
  /\ \A sz \in Sizes : EntriesAsCaptured(handleResize(Cur, sz[1], sz[2]))
  /\ EntriesAsCaptured(clear(Cur))
  /\ EntriesAsCaptured(undo(Cur))
  /\ EntriesAsCaptured(redo(Cur))
  /\ \A i \in Indexes : EntriesAsCaptured(restoreSnapshot(Cur, i))
  /\ EntriesAsCaptured(getDataUrl(Cur).cv)
  /\ EntriesAsCaptured(finishDrawing(Cur))
  /\ \A p \in Points :
       /\ EntriesAsCaptured(startDrawing(Cur, p))
       /\ EntriesAsCaptured(draw(Cur, p))

\* a stroke in progress has put ink in the buffer that neither of the two
\* snapshots holds, and a restore of the first snapshot repaints the buffer
C22_Witness ==
  /\ Len(historyStack) = 2
  /\ isDrawing
  /\ HasInk(canvas)
  /\ historyStack[1] # Snapshot(canvas)
  /\ historyStack[2] # Snapshot(canvas)
  /\ restoreSnapshot(Cur, 0).canvas # canvas
  /\ restoreSnapshot(Cur, 0).historyStack = historyStack

\* the context of s carries the style of the props of s
StyleApplied(s) ==
  s.hasCtx => (s.lineWidth = s.brushSize /\ s.strokeStyle = StyleOf(s.tool))

\* C23: whenever a drawing context exists, its line width is the current
\* brushSize and its stroke colour is the background colour for the eraser
\* and the configured colour for the pen; this holds after every change of
\* tool or brush size and after every resize.
C23_StyleFollowsProps ==
  /\ StyleApplied(Cur)
  /\ \A t \in Tools : StyleApplied(setTool(Cur, t))
  /\ \A b \in BrushSizes : StyleApplied(setBrushSize(Cur, b))
  /\ \A sz \in Sizes : StyleApplied(handleResize(Cur, sz[1], sz[2]))

\* the eraser and a brush size other than the initial one are selected on
\* a context whose buffer can be reallocated
C23_Witness ==
  /\ hasCtx
  /\ tool = "eraser"
  /\ brushSize # FirstRender.brushSize
  /\ lineWidth # DefaultLineWidth
  /\ Area(canvas) > 0
  /\ \E sz \in Sizes : handleResize(Cur, sz[1], sz[2]).canvas # canvas

\* C24: a resize notification whose target physical size equals the size of
\* the buffer changes nothing: pixel buffer, drawing context and its path,
\* stroke style, History and currentIndex stay as they are.
C24_SameSizeNoOp ==
  handleResize(Cur, canvas.w, canvas.h) = Cur

\* a stroke in progress on a buffer with ink and a History
C24_Witness ==
  /\ hasCtx
  /\ isDrawing
  /\ path.seg
  /\ HasInk(canvas)
  /\ Len(historyStack) >= 1
  /\ <<canvas.w, canvas.h>> \in Sizes

\* C25: the style of a stroke is fixed when the stroke starts: after a
\* change of tool or of brush size made during a stroke, the next segment
\* leaves the buffer as it would have been without the change (the pixels
\* already drawn keep their colour and the new segment is painted in the
\* stroke's colour), and the context keeps the stroke's line width.
C25_StyleFixedAtStrokeStart ==
  (isDrawing /\ hasCtx /\ ~isAnalyzing) =>
    \A p \in Points :
      /\ \A t \in Tools : draw(setTool(Cur, t), p).canvas = draw(Cur, p).canvas
      /\ \A b \in BrushSizes : draw(setBrushSize(Cur, b), p).lineWidth = lineWidth

\* C26: once a resize has been handled with a non-zero container size (the
\* mount included) a drawing context exists, whatever the size, so an
\* enabled stroke from p to q paints p and q in the stroke colour and is
\* captured as one snapshot.
C26_ContextAfterFirstResize ==
  (Area(canvas) > 0 /\ ~isAnalyzing) =>
    /\ hasCtx
    /\ \A p, q \in Points :
         LET t == CompleteStroke(Cur, p, q)
         IN /\ t.canvas.px[p] = StyleOf(tool)
            /\ t.canvas.px[q] = StyleOf(tool)
            /\ OneCapture(Cur, t)

\* C27: the disabled flag gates stroke input only.  While isAnalyzing is
\* true, clear() on a context with a buffer of non-zero area still makes the
\* buffer blank and appends a blank snapshot after the current entry, and
\* undo(), redo() and a jump still set currentIndex and write the snapshot
\* into the buffer, exactly as they do when the flag is false.
C27_FlagGatesStrokesOnly ==
  isAnalyzing =>
    LET idle == [Cur EXCEPT !.isAnalyzing = FALSE]
        Busy(t) == [t EXCEPT !.isAnalyzing = TRUE]
    IN /\ clear(Cur) = Busy(clear(idle))
       /\ undo(Cur) = Busy(undo(idle))
       /\ redo(Cur) = Busy(redo(idle))
       /\ \A i \in Indexes : restoreSnapshot(Cur, i) = Busy(restoreSnapshot(idle, i))
       /\ (hasCtx /\ Area(canvas) > 0) =>
            /\ clear(Cur).canvas = Blank(canvas)
            /\ clear(Cur).historyStack
                 = Append(Slice(historyStack, currentIndex + 1), Snapshot(Blank(canvas)))
       /\ (currentIndex > 0 /\ currentIndex <= Len(historyStack)) =>
            /\ undo(Cur).currentIndex = currentIndex - 1
            /\ undo(Cur).canvas
                 = PutImageData(canvas, historyStack[currentIndex].imageData)
       /\ (currentIndex >= -1 /\ currentIndex < Len(historyStack) - 1) =>
            /\ redo(Cur).currentIndex = currentIndex + 1
            /\ redo(Cur).canvas
                 = PutImageData(canvas, historyStack[currentIndex + 2].imageData)
       /\ \A i \in 0..(Len(historyStack) - 1) :
            restoreSnapshot(Cur, i).currentIndex = i

\* an analysis is outstanding on a buffer with ink; undo() would take the
\* ink away and clear() would append a snapshot
C27_Witness ==
  /\ isAnalyzing
  /\ hasCtx
  /\ HasInk(canvas)
  /\ currentIndex = 1
  /\ Len(historyStack) = 2
  /\ undo(Cur).canvas # canvas
  /\ ~HasInk(clear(Cur).canvas)

\* the images handleAnalyze can be called with in the current state
Images == Frames \cup Uploads \cup {ToDataURL(canvas)}

\* r is the outcome of a handleAnalyze call that started an analysis from
\* App state a
Started(a, r) == r.app.pending + r.app.hung = a.pending + a.hung + 1

\* C28: once an image x has been submitted (handleAnalyze started an
\* analysis of it), handleAnalyze called with an image y starts an analysis
\* exactly when y differs from x, whether the analysis of x is still in
\* flight or has settled with a result or with an error.
C28_StartsIffImageDiffers ==
  \A x, y \in Images :
    LET r1 == handleAnalyze(App, Cur, x)
    IN (Started(App, r1) /\ r1.app.pending + r1.app.hung < MaxCalls) =>
         /\ Started(r1.app, handleAnalyze(r1.app, r1.cv, y)) <=> (y # x)
         /\ Decodable(x) =>
              \A o \in Outcomes :
                LET r2 == analyzeSettled(r1.app, r1.cv, o)
                IN Started(r2.app, handleAnalyze(r2.app, r2.cv, y)) <=> (y # x)

\* C29: every analysis that handleAnalyze starts completes: whenever the
\* drawing surface is disabled, it is eventually enabled again with a
\* non-null result, provided every promise that can settle does.
C29_AnalysisCompletes ==
  isAnalyzing ~> (~isAnalyzing /\ result # Null)

\* C30: every model reply in the conversation answers a user message that
\* is in the conversation (so a reply that arrives after a new contextText
\* reset the message list is not appended to the new conversation), and
\* while isLoading is false at most one chat request is outstanding.
C30_RepliesAnswerConversation ==
  /\ \A i \in DOMAIN messages :
       messages[i].role = "model" =>
         \E j \in DOMAIN messages :
           messages[j].role = "user" /\ messages[j].msg = messages[i].re
  /\ ~isLoading => Cardinality(requests) <= 1

====
